---- MODULE Spec2Model ----
(***************************************************************************)
(* Model of the document generator of delphos-works (src/app.py, and the   *)
(* same code in src/functions/generate-document/handler.py): the request   *)
(* handler generate_document, the paragraph substitution                   *)
(* replace_placeholders_in_text and the table row expansion                *)
(* process_tables.                                                         *)
(*                                                                         *)
(* Text is a sequence of characters (one-character strings), so that       *)
(* str.replace, the `in` test and the f-string that builds a placeholder   *)
(* are modelled by what they do on characters.  A JSON value is a record   *)
(* with a kind k; a JSON object is a sequence of <<key, value>> pairs in   *)
(* the order dict.items() yields them.  Python's 0-based indices are       *)
(* written 1-based here.                                                   *)
(***************************************************************************)
EXTENDS Integers, Sequences, FiniteSets, TLC

\* ---------------------------------------------------------------- bounds

\* Longest table (rows) of the row-rich templates.
MaxRows == 3
\* Widest table (grid columns).
MaxCols == 2
\* Longest deliverables list of the element-rich requests.
MaxDeliv == 2
\* Most fields, besides templateId, of the field-rich requests.
MaxFields == 2
\* Most tables of the multi-table templates.
MaxTables == 2

\* ------------------------------------------------------------------ state

VARIABLES
    data,            \* request.get_json()
    found,           \* whether templates/<templateId> is in the bucket
    template,        \* the stored template: [paragraphs, tables]
    template_doc,    \* the loaded document, mutated in place
    pc,              \* the handler's position
    pi,              \* the paragraph loop's position
    ti,              \* the table loop's position
    i,               \* the position of the row, removal or addition loop
    rows_to_remove,
    rows_to_add,
    uploaded,        \* the documents put to generated/
    response         \* [status, message]; status 0 until the handler returns

vars == <<data, found, template, template_doc, pc, pi, ti, i,
          rows_to_remove, rows_to_add, uploaded, response>>

\* ------------------------------------------------------------------ text

LB == <<"{", "{">>
RB == <<"}", "}">>
REPEAT == <<"R", "E", "P", "E", "A", "T">>
ROW == <<"R", "O", "W">>
SP == <<" ">>

\* The literal '{{!REPEATROW}}'.
Marker == LB \o <<"!">> \o REPEAT \o ROW \o RB

\* f"{{{{{key}}}}}": two braces, the key, two braces.
Placeholder(key) == LB \o key \o RB

StartsWith(s, p) == Len(s) >= Len(p) /\ SubSeq(s, 1, Len(p)) = p

\* sub in s
Contains(s, sub) ==
    \E x \in 1..(Len(s) - Len(sub) + 1) : SubSeq(s, x, x + Len(sub) - 1) = sub

\* The number of places of s where sub starts.
Occurrences(s, sub) ==
    Cardinality({x \in 1..(Len(s) - Len(sub) + 1) :
                    SubSeq(s, x, x + Len(sub) - 1) = sub})

\* s.replace(old, new) for a non-empty old: the non-overlapping occurrences
\* of old, found left to right, each replaced by new; new is not scanned.
RECURSIVE Replace(_, _, _)
Replace(s, old, new) ==
    IF Len(s) < Len(old) THEN s
    ELSE IF StartsWith(s, old)
         THEN new \o Replace(SubSeq(s, Len(old) + 1, Len(s)), old, new)
         ELSE <<Head(s)>> \o Replace(Tail(s), old, new)

\* ''.join / ' '.join of a sequence of texts.
RECURSIVE Join(_, _)
Join(sep, texts) ==
    IF texts = <<>> THEN <<>>
    ELSE IF Len(texts) = 1 THEN texts[1]
    ELSE texts[1] \o sep \o Join(sep, Tail(texts))

\* ---------------------------------------------------------------- values

StrV(s) == [k |-> "str", s |-> s]
IntV(n) == [k |-> "int", n |-> n]
BoolV(b) == [k |-> "bool", b |-> b]
NullV == [k |-> "null"]
ListV(items) == [k |-> "list", items |-> items]
MapV(items) == [k |-> "map", items |-> items]

DigitChar(d) ==
    CASE d = 0 -> "0" [] d = 1 -> "1" [] d = 2 -> "2" [] d = 3 -> "3"
      [] d = 4 -> "4" [] d = 5 -> "5" [] d = 6 -> "6" [] d = 7 -> "7"
      [] d = 8 -> "8" [] d = 9 -> "9"

RECURSIVE Digits(_)
Digits(n) == IF n < 10 THEN <<DigitChar(n)>>
             ELSE Digits(n \div 10) \o <<DigitChar(n % 10)>>

\* str(value) for the values the model draws: a string is itself, an integer
\* its decimal digits, a boolean True/False, None the text None, the empty
\* list and the empty dict their brackets.
Str(v) ==
    CASE v.k = "str" -> v.s
      [] v.k = "int" -> IF v.n < 0 THEN <<"-">> \o Digits(0 - v.n) ELSE Digits(v.n)
      [] v.k = "bool" -> IF v.b THEN <<"T", "r", "u", "e">>
                         ELSE <<"F", "a", "l", "s", "e">>
      [] v.k = "null" -> <<"N", "o", "n", "e">>
      [] v.k = "list" -> <<"[", "]">>
      [] v.k = "map" -> <<"{", "}">>

\* isinstance(value, (str, int, float)); bool is a subclass of int.
IsScalar(v) == v.k \in {"str", "int", "bool"}

\* Python truthiness, as `if not data` and `if not template_id` read it.
Truthy(v) ==
    CASE v.k = "str" -> v.s # <<>>
      [] v.k = "int" -> v.n # 0
      [] v.k = "bool" -> v.b
      [] v.k = "null" -> FALSE
      [] v.k = "list" -> v.items # <<>>
      [] v.k = "map" -> v.items # <<>>

HasKey(items, key) == \E x \in 1..Len(items) : items[x][1] = key

\* dict.get(key, default) on the items of a dict.
Get(items, key, default) ==
    IF HasKey(items, key)
    THEN items[CHOOSE x \in 1..Len(items) : items[x][1] = key][2]
    ELSE default

Deliverables == <<"d", "e", "l", "i", "v", "e", "r", "a", "b", "l", "e", "s">>
TemplateId == <<"t", "e", "m", "p", "l", "a", "t", "e", "I", "d">>

\* ------------------------------------------- replace_placeholders_in_text

\* paragraph.text: the text of the paragraph's runs, concatenated.
ParagraphText(paragraph) == Join(<<>>, paragraph)

\* The loop over data.items(): each key other than 'deliverables' whose value
\* is a str, int or float replaces its placeholder in the accumulating text.
RECURSIVE ReplaceSimple(_, _)
ReplaceSimple(full_text, items) ==
    IF items = <<>> THEN full_text
    ELSE LET key == Head(items)[1]
             value == Head(items)[2]
         IN ReplaceSimple(
                IF key # Deliverables /\ IsScalar(value)
                THEN Replace(full_text, Placeholder(key), Str(value))
                ELSE full_text,
                Tail(items))

\* replace_placeholders_in_text without its test `full_text != paragraph.text`:
\* the paragraph is cleared and rebuilt whether or not the text changed.
replace_and_always_rebuild(paragraph, items) ==
    <<ReplaceSimple(ParagraphText(paragraph), items)>>

\* The paragraph after replace_placeholders_in_text(paragraph, data): when the
\* text changed, the paragraph is cleared and gets one run with the new text.
replace_placeholders_in_text(paragraph, items) ==
    LET full_text == ReplaceSimple(ParagraphText(paragraph), items)
    IN IF full_text # ParagraphText(paragraph) THEN <<full_text>> ELSE paragraph

\* --------------------------------------------------------- process_tables

\* ' '.join(cell.text for cell in row.cells)
RowText(row) == Join(SP, row)

\* A marker test that takes any row with an opening '{{' for a template row.
IsTemplateRowLoose(row) == Contains(RowText(row), LB)

\* '{{!REPEATROW}}' in row_text
IsTemplateRow(row) == Contains(RowText(row), Marker)

\* `for deliverable in deliverables` raises TypeError on None, a number or a
\* boolean; a list yields its elements, a str its characters, a dict its keys.
Iterable(v) == v.k \in {"list", "str", "map"}

Elements(v) ==
    CASE v.k = "list" -> v.items
      [] v.k = "str" -> [j \in 1..Len(v.s) |-> StrV(<<v.s[j]>>)]
      [] v.k = "map" -> [j \in 1..Len(v.items) |-> StrV(v.items[j][1])]

\* deliverable.items() raises AttributeError on anything but a dict.
Raises(deliverables) ==
    \/ ~Iterable(deliverables)
    \/ \E j \in 1..Len(Elements(deliverables)) : Elements(deliverables)[j].k # "map"

\* The loop over deliverable.items(): every key's placeholder is replaced by
\* str(value), whatever the value is.
RECURSIVE ReplaceDeliverable(_, _)
ReplaceDeliverable(cell_text, items) ==
    IF items = <<>> THEN cell_text
    ELSE ReplaceDeliverable(
             Replace(cell_text, Placeholder(Head(items)[1]), Str(Head(items)[2])),
             Tail(items))

\* new_row_data with the top-level record's fields substituted as well.
NewRowDataTopLevel(template_row, deliverable) ==
    [j \in 1..Len(template_row) |->
        ReplaceDeliverable(
            ReplaceSimple(Replace(template_row[j], Marker, <<>>), data.items),
            deliverable.items)]

\* new_row_data for one template row and one deliverable.
NewRowData(template_row, deliverable) ==
    [j \in 1..Len(template_row) |->
        ReplaceDeliverable(Replace(template_row[j], Marker, <<>>), deliverable.items)]

\* The entries of one template row with the deliverables taken last to first.
RowEntriesBackwards(original_index, template_row, deliverables) ==
    [p \in 1..Len(Elements(deliverables)) |->
        <<original_index,
          NewRowData(template_row,
                     Elements(deliverables)[Len(Elements(deliverables)) + 1 - p])>>]

\* The entries the template row at index original_index appends to
\* rows_to_add, in the order of the deliverables.
RowEntries(original_index, template_row, deliverables) ==
    [p \in 1..Len(Elements(deliverables)) |->
        <<original_index, NewRowData(template_row, Elements(deliverables)[p])>>]

\* The removal loop without reversed(): the indices lowest first.
NotReversed(s) == s

\* reversed(rows_to_remove)
Reversed(s) == [j \in 1..Len(s) |-> s[Len(s) + 1 - j]]

\* s without its element at index x.
RemoveAt(s, x) == SubSeq(s, 1, x - 1) \o SubSeq(s, x + 1, Len(s))

\* table.add_row() and the assignments to its cells: a row of the table's
\* grid columns, empty but for the cells row_data reaches.
AddedRow(cols, row_data) ==
    [j \in 1..cols |-> IF j <= Len(row_data) THEN row_data[j] ELSE <<>>]

NoDoc == [paragraphs |-> <<>>, tables |-> <<>>]

\* data.get('deliverables', [])
deliverables == Get(data.items, Deliverables, ListV(<<>>))

\* ----------------------------------------------------------------- inputs

SeqsUpTo(S, n) == UNION {[1..m -> S] : m \in 0..n}

DistinctKeys(items) ==
    \A x, y \in 1..Len(items) : x # y => items[x][1] # items[y][1]

kt == <<"t">>
ki == <<"i">>
kq == <<"q">>
ka == <<"a">>
kb == <<"b">>
kn == <<"n">>

IdField == <<TemplateId, StrV(<<"T", "1">>)>>

\* Top-level fields: values that are plain, that hold or complete a
\* placeholder of another key, that are empty, a number, a boolean, null,
\* and a 'deliverables' that is a scalar.
FieldSet ==
    { <<kt, StrV(<<"X">>)>>,
      <<kt, BoolV(TRUE)>>,
      <<ka, StrV(Placeholder(kb))>>,
      <<ka, StrV(kb)>>,
      <<ka, StrV(<<>>)>>,
      <<kb, StrV(<<"Y">>)>>,
      <<kb, IntV(10)>>,
      <<kn, NullV>>,
      <<Deliverables, StrV(<<"D">>)>> }

\* Paragraphs, each a sequence of runs.
ParagraphSet ==
    { <<<<"H", "i", " ">>, Placeholder(kt)>>,
      <<Placeholder(ka)>>,
      <<Placeholder(ka) \o Placeholder(kb)>>,
      <<Placeholder(kn) \o SP, Placeholder(kt)>>,
      <<LB, kn \o RB>>,
      <<LB \o Placeholder(ka) \o RB>>,
      <<LB \o kn \o Placeholder(ka) \o RB>>,
      <<Placeholder(Deliverables)>>,
      <<Placeholder(TemplateId), <<"x">>>>,
      <<<<"p", "l", "a", "i", "n">>>> }

\* Table rows, each a sequence of cell texts.
HeaderRow == <<<<"H">>, <<"Z">>>>
FieldRow == <<Placeholder(kt)>>
ItemRow == <<Placeholder(kt) \o SP \o Placeholder(ki) \o Marker, Placeholder(kq)>>
QtyRow == <<Placeholder(kq), Marker \o Placeholder(ki)>>
NestedRow == <<LB \o <<"!">> \o REPEAT \o Marker \o ROW \o RB>>
SplitRow == <<LB \o <<"!">> \o REPEAT \o Placeholder(ki) \o ROW \o RB \o Marker>>

RowSet == {HeaderRow, FieldRow, ItemRow, QtyRow, NestedRow}

Table(cols, rows) == [cols |-> cols, rows |-> rows]

\* Deliverables elements: mappings with scalar values, with a value that is
\* the marker, an empty value, a null and a list value, a key of the
\* top-level record; and elements that are no mappings.
ElemA == MapV(<< <<ki, StrV(<<"A">>)>>, <<kq, IntV(3)>> >>)
ElemB == MapV(<< <<ki, StrV(<<"B">>)>> >>)
ElemMarker == MapV(<< <<ki, StrV(Marker)>> >>)
ElemEmpty == MapV(<< <<kq, StrV(Placeholder(ki))>>, <<ki, StrV(<<>>)>> >>)
ElemNull == MapV(<< <<ki, NullV>>, <<kq, ListV(<<>>)>> >>)
ElemTop == MapV(<< <<kt, StrV(<<"T">>)>>, <<ki, StrV(<<"A">>)>> >>)

ElemSet == {ElemA, ElemB, ElemMarker, ElemEmpty, ElemNull, ElemTop,
            StrV(<<"x">>), NullV}

\* A deliverables value that is no list.
NoListSet == {NullV, StrV(<<"a", "b">>), StrV(<<>>), IntV(3), MapV(<<>>),
              MapV(<< <<ki, StrV(<<"A">>)>> >>)}

Request(fields) == MapV(<<IdField>> \o fields)

TwoParagraphs == <<<<Placeholder(kt)>>, <<<<"H", "i">>>>>>

\* Requests with many shapes of fields against templates of one paragraph.
InitFields ==
    /\ \E fields \in SeqsUpTo(FieldSet, MaxFields) :
          /\ DistinctKeys(fields)
          /\ data = Request(fields)
    /\ \E paragraph \in ParagraphSet :
          template = [paragraphs |-> <<paragraph>>, tables |-> <<>>]
    /\ found = TRUE

\* Templates of one table with many shapes of rows.
InitRows ==
    /\ \E list \in {<<>>, <<ElemA>>, <<ElemA, ElemB>>} :
          data = Request(<< <<kt, StrV(<<"X">>)>>, <<Deliverables, ListV(list)>> >>)
    /\ \E cols \in 1..MaxCols, rows \in SeqsUpTo(RowSet, MaxRows) :
          template = [paragraphs |-> <<>>, tables |-> <<Table(cols, rows)>>]
    /\ found = TRUE

\* Requests with many shapes of deliverables, a list or not.
InitDeliverables ==
    /\ \/ \E list \in SeqsUpTo(ElemSet, MaxDeliv), top \in {StrV(<<"X">>), IntV(10)} :
             data = Request(<< <<kt, top>>, <<Deliverables, ListV(list)>> >>)
       \/ \E v \in NoListSet :
             data = Request(<< <<Deliverables, v>>, <<kt, StrV(<<"X">>)>> >>)
    /\ \E rows \in {<<HeaderRow, ItemRow, FieldRow>>, <<QtyRow>>, <<SplitRow, HeaderRow>>,
                    <<HeaderRow>>} :
          template = [paragraphs |-> TwoParagraphs, tables |-> <<Table(2, rows)>>]
    /\ found = TRUE

\* Templates of several tables.
InitTables ==
    /\ \E list \in {<<>>, <<ElemA, ElemB>>} :
          data = Request(<< <<kt, StrV(<<"X">>)>>, <<Deliverables, ListV(list)>> >>)
    /\ \E tables \in SeqsUpTo({Table(2, <<HeaderRow, FieldRow>>),
                               Table(2, <<ItemRow, HeaderRow>>),
                               Table(1, <<FieldRow, NestedRow, FieldRow>>),
                               Table(2, <<>>)}, MaxTables) :
          template = [paragraphs |-> TwoParagraphs, tables |-> tables]
    /\ found = TRUE

\* Requests the handler refuses, and templates that are not in the bucket.
InitRefused ==
    /\ data \in {NullV, MapV(<<>>), ListV(<<StrV(<<"x">>)>>), StrV(<<"x">>),
                 MapV(<< <<kt, StrV(<<"X">>)>> >>),
                 MapV(<< <<TemplateId, StrV(<<>>)>> >>),
                 MapV(<< <<TemplateId, NullV>>, <<kt, StrV(<<"X">>)>> >>),
                 Request(<< <<kt, StrV(<<"X">>)>> >>)}
    /\ template = [paragraphs |-> TwoParagraphs,
                   tables |-> <<Table(2, <<HeaderRow, ItemRow>>)>>]
    /\ found \in BOOLEAN

Init ==
    /\ \/ InitFields
       \/ InitRows
       \/ InitDeliverables
       \/ InitTables
       \/ InitRefused
    /\ template_doc = NoDoc
    /\ pc = "get_json"
    /\ pi = 1
    /\ ti = 1
    /\ i = 1
    /\ rows_to_remove = <<>>
    /\ rows_to_add = <<>>
    /\ uploaded = <<>>
    /\ response = [status |-> 0, message |-> ""]

\* ---------------------------------------------------------------- actions

Respond(status, message) ==
    /\ pc' = "returned"
    /\ response' = [status |-> status, message |-> message]

\* data = request.get_json(); `if not data` answers 400.
GetJson ==
    /\ pc = "get_json"
    /\ IF ~Truthy(data)
       THEN Respond(400, "JSON data is required")
       ELSE pc' = "validate" /\ UNCHANGED response
    /\ UNCHANGED <<data, found, template, template_doc, pi, ti, i,
                   rows_to_remove, rows_to_add, uploaded>>

\* template_id = data.get('templateId'): a body that is no dict has no get
\* (AttributeError, answered 500 by the handler's except); a missing or
\* falsy templateId answers 400.
Validate ==
    /\ pc = "validate"
    /\ IF data.k # "map"
       THEN Respond(500, "Internal server error")
       ELSE IF ~Truthy(Get(data.items, TemplateId, NullV))
            THEN Respond(400, "templateId is required")
            ELSE pc' = "download" /\ UNCHANGED response
    /\ UNCHANGED <<data, found, template, template_doc, pi, ti, i,
                   rows_to_remove, rows_to_add, uploaded>>

\* get_object of templates/<templateId>: any failure answers 404; otherwise
\* the document is loaded from the template's content.
Download ==
    /\ pc = "download"
    /\ IF ~found
       THEN Respond(404, "The Template could not be found.")
            /\ UNCHANGED <<template_doc, pi>>
       ELSE /\ template_doc' = template
            /\ pi' = 1
            /\ pc' = "paragraphs"
            /\ UNCHANGED response
    /\ UNCHANGED <<data, found, template, ti, i, rows_to_remove, rows_to_add, uploaded>>

\* One turn of `for paragraph in template_doc.paragraphs`.
ReplaceParagraph ==
    /\ pc = "paragraphs"
    /\ pi <= Len(template_doc.paragraphs)
    /\ template_doc' =
          [template_doc EXCEPT !.paragraphs[pi] =
              replace_placeholders_in_text(template_doc.paragraphs[pi], data.items)]
    /\ pi' = pi + 1
    /\ UNCHANGED <<data, found, template, pc, ti, i, rows_to_remove, rows_to_add,
                   uploaded, response>>

\* The start of one turn of `for table in doc.tables` (the first after the
\* paragraph loop): rows_to_remove = [], rows_to_add = [].
BeginTable ==
    /\ \/ pc = "paragraphs" /\ pi > Len(template_doc.paragraphs) /\ ti' = 1
       \/ pc = "added" /\ ti' = ti + 1
    /\ ti' <= Len(template_doc.tables)
    /\ pc' = "rows"
    /\ i' = 1
    /\ rows_to_remove' = <<>>
    /\ rows_to_add' = <<>>
    /\ UNCHANGED <<data, found, template, template_doc, pi, uploaded, response>>

\* One turn of `for i, row in enumerate(table.rows)`: a row with the marker
\* is recorded for removal and gets one entry of rows_to_add per deliverable;
\* an exception of the loop over the deliverables leaves process_tables (its
\* locals are dropped with it) and is answered 500 by the handler's except.
ScanRow ==
    /\ pc = "rows"
    /\ i <= Len(template_doc.tables[ti].rows)
    /\ LET row == template_doc.tables[ti].rows[i]
       IN IF ~IsTemplateRow(row)
          THEN /\ i' = i + 1
               /\ UNCHANGED <<pc, rows_to_remove, rows_to_add, response>>
          ELSE IF Raises(deliverables)
               THEN /\ Respond(500, "Internal server error")
                    /\ rows_to_remove' = Append(rows_to_remove, i)
                    /\ UNCHANGED <<i, rows_to_add>>
               ELSE /\ rows_to_remove' = Append(rows_to_remove, i)
                    /\ rows_to_add' = rows_to_add \o RowEntries(i, row, deliverables)
                    /\ i' = i + 1
                    /\ UNCHANGED <<pc, response>>
    /\ UNCHANGED <<data, found, template, template_doc, pi, ti, uploaded>>

\* The row loop is over: the removal loop starts.
EndScan ==
    /\ pc = "rows"
    /\ i > Len(template_doc.tables[ti].rows)
    /\ pc' = "remove"
    /\ i' = 1
    /\ UNCHANGED <<data, found, template, template_doc, pi, ti, rows_to_remove,
                   rows_to_add, uploaded, response>>

\* One turn of `for row_index in reversed(rows_to_remove)`: table.rows[row_index]
\* (IndexError past the end, answered 500) is removed from the table.
RemoveRow ==
    /\ pc = "remove"
    /\ i <= Len(rows_to_remove)
    /\ LET row_index == Reversed(rows_to_remove)[i]
       IN IF row_index > Len(template_doc.tables[ti].rows)
          THEN Respond(500, "Internal server error") /\ UNCHANGED <<template_doc, i>>
          ELSE /\ template_doc' =
                     [template_doc EXCEPT !.tables[ti].rows = RemoveAt(@, row_index)]
               /\ i' = i + 1
               /\ UNCHANGED <<pc, response>>
    /\ UNCHANGED <<data, found, template, pi, ti, rows_to_remove, rows_to_add, uploaded>>

\* The removal loop is over: the addition loop starts.
EndRemove ==
    /\ pc = "remove"
    /\ i > Len(rows_to_remove)
    /\ pc' = "add"
    /\ i' = 1
    /\ UNCHANGED <<data, found, template, template_doc, pi, ti, rows_to_remove,
                   rows_to_add, uploaded, response>>

\* One turn of `for original_index, row_data in rows_to_add`: a row is added
\* at the end of the table and its cells are set.
AddRow ==
    /\ pc = "add"
    /\ i <= Len(rows_to_add)
    /\ template_doc' =
          [template_doc EXCEPT !.tables[ti].rows =
              Append(@, AddedRow(template_doc.tables[ti].cols, rows_to_add[i][2]))]
    /\ i' = i + 1
    /\ UNCHANGED <<data, found, template, pc, pi, ti, rows_to_remove, rows_to_add,
                   uploaded, response>>

\* The addition loop is over: the table is done.
EndAdd ==
    /\ pc = "add"
    /\ i > Len(rows_to_add)
    /\ pc' = "added"
    /\ UNCHANGED <<data, found, template, template_doc, pi, ti, i, rows_to_remove,
                   rows_to_add, uploaded, response>>

\* process_tables returned: the document is saved, put to generated/ and the
\* handler answers 200.
Upload ==
    /\ \/ pc = "paragraphs" /\ pi > Len(template_doc.paragraphs)
                            /\ template_doc.tables = <<>>
       \/ pc = "added" /\ ti = Len(template_doc.tables)
    /\ uploaded' = Append(uploaded, template_doc)
    /\ Respond(200, "")
    /\ UNCHANGED <<data, found, template, template_doc, pi, ti, i, rows_to_remove,
                   rows_to_add>>

Next ==
    \/ GetJson
    \/ Validate
    \/ Download
    \/ ReplaceParagraph
    \/ BeginTable
    \/ ScanRow
    \/ EndScan
    \/ RemoveRow
    \/ EndRemove
    \/ AddRow
    \/ EndAdd
    \/ Upload

Spec == Init /\ [][Next]_vars

\* ----------------------------------------------------------------- claims

\* Table t of the document has been through its whole turn of process_tables.
Processed(t) ==
    /\ t \in 1..Len(template_doc.tables)
    /\ \/ ti > t
       \/ ti = t /\ (pc = "added" \/ response.status = 200)

\* The deliverables value is a list of mappings.
IsRecordList(v) ==
    v.k = "list" /\ \A j \in 1..Len(v.items) : v.items[j].k = "map"

\* The indices of the rows with the marker, ascending.
MarkerRows(rows) ==
    LET F[j \in 0..Len(rows)] ==
            IF j = 0 THEN <<>>
            ELSE IF Contains(Join(SP, rows[j]), Marker) THEN Append(F[j - 1], j)
            ELSE F[j - 1]
    IN F[Len(rows)]

\* The rows at the indices of S, in their order.
RowsAt(rows, S) ==
    LET F[j \in 0..Len(rows)] ==
            IF j = 0 THEN <<>>
            ELSE IF j \in S THEN Append(F[j - 1], rows[j])
            ELSE F[j - 1]
    IN F[Len(rows)]

Range(s) == {s[j] : j \in 1..Len(s)}

\* The rows without the marker, in their order.
OtherRows(rows) == RowsAt(rows, (1..Len(rows)) \ Range(MarkerRows(rows)))

\* The row the table gets for marker row m and element e: the cells without
\* the marker, e's fields substituted, cut or padded to the table's columns.
Expansion(table, m, e) ==
    [j \in 1..table.cols |->
        IF j <= Len(table.rows[m])
        THEN ReplaceDeliverable(Replace(table.rows[m][j], Marker, <<>>), e.items)
        ELSE <<>>]

KeyOrders(n) ==
    {f \in [1..n -> 1..n] : \A x, y \in 1..n : x # y => f[x] # f[y]}

Keys(items) == {items[j][1] : j \in 1..Len(items)}

\* C1: a table with exactly one marker row has, after process_tables, the N
\* expansion rows at the marker row's position, and every other row where it
\* was relative to them.
RowCountLaw ==
    \A t \in 1..Len(template_doc.tables) :
        LET orig == template.tables[t]
            idx == MarkerRows(orig.rows)
        IN (Processed(t) /\ IsRecordList(deliverables) /\ Len(idx) = 1) =>
              template_doc.tables[t].rows =
                  SubSeq(orig.rows, 1, idx[1] - 1)
                  \o [p \in 1..Len(deliverables.items) |->
                         Expansion(orig, idx[1], deliverables.items[p])]
                  \o SubSeq(orig.rows, idx[1] + 1, Len(orig.rows))

\* C2: after process_tables no cell of any row of a table holds the marker.
MarkerRemoval ==
    \A t \in 1..Len(template_doc.tables) :
        Processed(t) =>
            \A r \in 1..Len(template_doc.tables[t].rows) :
                \A j \in 1..Len(template_doc.tables[t].rows[r]) :
                    ~Contains(template_doc.tables[t].rows[r][j], Marker)

\* C9: after process_tables a table is its rows without the marker, unchanged
\* and in their order, followed by M*N rows; and while the recorded indices
\* are removed from the highest down, the rows removed so far are exactly the
\* marker rows of the highest indices.
RemovalAndAppend ==
    \A t \in 1..Len(template_doc.tables) :
        LET orig == template.tables[t].rows
            idx == MarkerRows(orig)
            keep == OtherRows(orig)
            cur == template_doc.tables[t].rows
        IN /\ (Processed(t) /\ IsRecordList(deliverables)) =>
                 /\ Len(cur) = Len(keep) + Len(idx) * Len(deliverables.items)
                 /\ SubSeq(cur, 1, Len(keep)) = keep
           /\ (ti = t /\ pc = "remove") =>
                 cur = RowsAt(orig, (1..Len(orig)) \
                                    {idx[m] : m \in (Len(idx) - i + 2)..Len(idx)})
           /\ (ti = t /\ pc = "add") =>
                 Len(cur) >= Len(keep) /\ SubSeq(cur, 1, Len(keep)) = keep

\* C9's case: two adjacent marker rows, the first row among them, beside a
\* row without the marker, expanded for two deliverables.
RemovalAndAppendWitness ==
    /\ response.status = 200
    /\ IsRecordList(deliverables)
    /\ Len(deliverables.items) = 2
    /\ \E t \in 1..Len(template.tables) :
          LET idx == MarkerRows(template.tables[t].rows)
          IN /\ Len(idx) >= 2
             /\ idx[1] = 1
             /\ idx[2] = 2
             /\ Len(template.tables[t].rows) = 3
             /\ Len(template_doc.tables[t].rows) = 5

\* C3: the expansion of the r-th marker row for the p-th deliverable is the
\* row at place (r-1)*N + p after the rows without the marker: earlier marker
\* rows first, and within one marker row the order of the deliverables.
OrderPreservation ==
    \A t \in 1..Len(template_doc.tables) :
        LET orig == template.tables[t]
            idx == MarkerRows(orig.rows)
            keep == Len(orig.rows) - Len(idx)
            n == Len(deliverables.items)
        IN (Processed(t) /\ IsRecordList(deliverables)) =>
              \A r \in 1..Len(idx), p \in 1..n :
                  /\ keep + (r - 1) * n + p <= Len(template_doc.tables[t].rows)
                  /\ template_doc.tables[t].rows[keep + (r - 1) * n + p]
                        = Expansion(orig, idx[r], deliverables.items[p])

\* C3's case: two marker rows and two deliverables whose four expansions
\* differ from each other.
OrderPreservationWitness ==
    /\ response.status = 200
    /\ IsRecordList(deliverables)
    /\ Len(deliverables.items) = 2
    /\ \E t \in 1..Len(template.tables) :
          LET orig == template.tables[t]
              idx == MarkerRows(orig.rows)
          IN /\ Len(idx) = 2
             /\ Len(orig.rows) = 3
             /\ Cardinality({Expansion(orig, idx[r], deliverables.items[p]) :
                                r \in 1..2, p \in 1..2}) = 4

\* C4: in the row synthesized for element e, every occurrence of {{k}} for a
\* key k of the top-level record that is no key of e is still there.
FieldIsolation ==
    \A t \in 1..Len(template_doc.tables) :
        LET orig == template.tables[t]
            idx == MarkerRows(orig.rows)
            keep == Len(orig.rows) - Len(idx)
            n == Len(deliverables.items)
        IN (Processed(t) /\ IsRecordList(deliverables)) =>
              \A r \in 1..Len(idx), p \in 1..n :
                  \A k \in Keys(data.items) \ Keys(deliverables.items[p].items) :
                      \A j \in 1..Len(orig.rows[idx[r]]) :
                          j <= orig.cols =>
                             Occurrences(
                                 template_doc.tables[t].rows[keep + (r - 1) * n + p][j],
                                 Placeholder(k))
                             >= Occurrences(orig.rows[idx[r]][j], Placeholder(k))

\* C4's case: the spec's example, '{{t}} {{i}}{{!REPEATROW}}' with a
\* top-level t and the element {i: A}, gives '{{t}} A'.
FieldIsolationWitness ==
    /\ response.status = 200
    /\ HasKey(data.items, kt)
    /\ IsRecordList(deliverables)
    /\ \E p \in 1..Len(deliverables.items) : ~HasKey(deliverables.items[p].items, kt)
    /\ \E t \in 1..Len(template_doc.tables) :
          /\ \E r \in 1..Len(template.tables[t].rows) :
                template.tables[t].rows[r][1]
                   = Placeholder(kt) \o SP \o Placeholder(ki) \o Marker
          /\ \E r \in 1..Len(template_doc.tables[t].rows) :
                template_doc.tables[t].rows[r][1] = Placeholder(kt) \o SP \o <<"A">>

\* C5: a table none of whose rows holds the marker is, in the document and
\* in the uploaded document, what it is in the template.
NonRepeatingUntouched ==
    \A t \in 1..Len(template.tables) :
        MarkerRows(template.tables[t].rows) = <<>> =>
            /\ template_doc # NoDoc => template_doc.tables[t] = template.tables[t]
            /\ \A u \in 1..Len(uploaded) : uploaded[u].tables[t] = template.tables[t]

\* C5's case: a full render that changed a paragraph and expanded a table,
\* beside a table without the marker that holds the placeholder of a scalar
\* key of the record.
NonRepeatingUntouchedWitness ==
    /\ response.status = 200
    /\ uploaded # <<>>
    /\ template_doc.paragraphs # template.paragraphs
    /\ \E t, u \in 1..Len(template.tables) :
          /\ MarkerRows(template.tables[t].rows) = <<>>
          /\ \E r \in 1..Len(template.tables[t].rows) :
                \E j \in 1..Len(template.tables[t].rows[r]) :
                    \E k \in Keys(data.items) :
                        /\ IsScalar(Get(data.items, k, NullV))
                        /\ Contains(template.tables[t].rows[r][j], Placeholder(k))
          /\ MarkerRows(template.tables[u].rows) # <<>>
          /\ template_doc.tables[u] # template.tables[u]

\* C6: the text of a paragraph after replace_placeholders_in_text is the same
\* for every order of the record's keys.
OrderIndependence ==
    \A p \in 1..Len(template_doc.paragraphs) :
        p < pi =>
            \A f \in KeyOrders(Len(data.items)) :
                ParagraphText(template_doc.paragraphs[p])
                  = ReplaceSimple(ParagraphText(template.paragraphs[p]),
                                  [x \in 1..Len(data.items) |-> data.items[f[x]]])

\* The names placeholders are drawn from.
Names == {kt, ki, kq, ka, kb, kn, Deliverables, TemplateId}

\* Key k of the record is one replace_placeholders_in_text substitutes.
Substituted(k) ==
    HasKey(data.items, k) /\ k # Deliverables /\ IsScalar(Get(data.items, k, NullV))

\* C7: after replace_placeholders_in_text every occurrence of {{name}} for a
\* name that is no scalar-valued key of the record (or is 'deliverables',
\* which the function skips) is still there; when no
\* key the record substitutes has its placeholder in the text, the
\* paragraph's runs are what they were; and the handler's 500 never comes
\* from the paragraphs.
UnmatchedPlaceholders ==
    /\ \A p \in 1..Len(template_doc.paragraphs) :
          p < pi =>
             LET before == ParagraphText(template.paragraphs[p])
                 after == ParagraphText(template_doc.paragraphs[p])
             IN /\ \A name \in Names :
                      ~Substituted(name) =>
                          Occurrences(after, Placeholder(name))
                             >= Occurrences(before, Placeholder(name))
                /\ (\A k \in Keys(data.items) :
                       Substituted(k) => ~Contains(before, Placeholder(k))) =>
                          template_doc.paragraphs[p] = template.paragraphs[p]
    /\ response.status = 500 =>
          \/ data.k # "map"
          \/ template_doc # NoDoc /\ pi > Len(template_doc.paragraphs)

\* C7's case: a paragraph of two runs whose placeholder {{n}} has no scalar
\* key, under a record with scalar keys none of which is in the text.
UnmatchedPlaceholdersWitness ==
    /\ response.status = 200
    /\ Len(data.items) >= 3
    /\ \A x \in 1..Len(data.items) : IsScalar(data.items[x][2])
    /\ \E p \in 1..Len(template.paragraphs) :
          /\ Len(template.paragraphs[p]) = 2
          /\ Contains(ParagraphText(template.paragraphs[p]), Placeholder(kn))
          /\ \A k \in Keys(data.items) :
                ~Contains(ParagraphText(template.paragraphs[p]), Placeholder(k))
          /\ template_doc.paragraphs[p] = template.paragraphs[p]

\* The deliverables value of the record is there and is no list of mappings.
Malformed ==
    /\ data.k = "map"
    /\ HasKey(data.items, Deliverables)
    /\ ~IsRecordList(deliverables)

\* C8: a request with a templateId and a malformed deliverables, for a
\* template that is there, ends with the document uploaded and status 200.
GracefulDegradation ==
    (/\ pc = "returned"
     /\ Malformed
     /\ Truthy(Get(data.items, TemplateId, NullV))
     /\ found) =>
        response.status = 200 /\ uploaded # <<>>

\* C10: the row synthesized for element e is what the paragraph rule
\* (scalar values only) gives on the cells without the marker.
SameSubstitutionRule ==
    \A t \in 1..Len(template_doc.tables) :
        LET orig == template.tables[t]
            idx == MarkerRows(orig.rows)
            keep == Len(orig.rows) - Len(idx)
            n == Len(deliverables.items)
        IN (Processed(t) /\ IsRecordList(deliverables)) =>
              \A r \in 1..Len(idx), p \in 1..n :
                  \A j \in 1..Len(orig.rows[idx[r]]) :
                      j <= orig.cols =>
                         template_doc.tables[t].rows[keep + (r - 1) * n + p][j]
                           = ReplaceSimple(Replace(orig.rows[idx[r]][j], Marker, <<>>),
                                           deliverables.items[p].items)

====
